---- MODULE Spec2Model ----
(***************************************************************************)
(* A model of github.com/glennprays/log: Config.Validate, Level.toZapLevel, *)
(* New, Logger.With, the five log methods, Sync and getCaller.              *)
(*                                                                         *)
(* Strings are sequences of one-character strings, so that trimming, case  *)
(* folding and path splitting are computed and not assumed.  File paths    *)
(* and function names use "/" as their separator character; the other      *)
(* characters of a path are opaque tokens.                                 *)
(***************************************************************************)
EXTENDS Integers, Sequences, FiniteSets, TLC

VARIABLES
    cfg,      \* the Config value an application holds and calls Validate on
    vcalls,   \* the Validate calls made on cfg: <<[pre, post, err], ...>>
    heap,     \* the Logger objects allocated so far; a *Logger is an index
    origin,   \* how and when each Logger came to be: New(cfg) or parent.With(fields)
    streams,  \* what each sink (stdout or a file path) has received
    fs,       \* which file paths the process can open for writing
    clock,    \* the wall clock, read once per emitted entry
    exited,   \* the process has called os.Exit
    ret,      \* the last call made on the library and what it returned
    thr,      \* the goroutines that log concurrently: where each one is in its call
    mu,       \* the mutex of each sink's writer: the goroutine inside Write, or 0
    wire,     \* the bytes each sink has taken, in the order it took them
    stack     \* the call stack getCaller is called on when called by itself

vars == <<cfg, vcalls, heap, origin, streams, fs, clock, exited, ret, thr, mu, wire, stack>>

(***************************************************************************)
(* Bounds of the model.                                                    *)
(***************************************************************************)
MaxValidateCalls == 2
MaxLoggers == 3
MaxRecords == 1
MaxObjects == 4
MaxThreads == 2
MaxFifoCalls == 2

\* there is room for one more Logger
CanAllocate(loggers, entries) ==
    loggers < MaxLoggers /\ loggers + entries < MaxObjects

\* there is room for one more log entry
CanEmit(loggers, entries) ==
    entries < MaxRecords /\ loggers + entries < MaxObjects

(***************************************************************************)
(* Strings.                                                                *)
(***************************************************************************)
UpperLetters ==
    <<"A","B","C","D","E","F","G","H","I","J","K","L","M",
      "N","O","P","Q","R","S","T","U","V","W","X","Y","Z">>

LowerLetters ==
    <<"a","b","c","d","e","f","g","h","i","j","k","l","m",
      "n","o","p","q","r","s","t","u","v","w","x","y","z">>

WhiteSpace == {" ", "\t", "\n", "\r"}

LowerChar(ch) ==
    IF \E i \in 1..Len(UpperLetters) : UpperLetters[i] = ch
    THEN LowerLetters[CHOOSE i \in 1..Len(UpperLetters) : UpperLetters[i] = ch]
    ELSE ch

\* strings.ToLower
ToLower(s) == [i \in 1..Len(s) |-> LowerChar(s[i])]

\* strings.TrimSpace
TrimSpace(s) ==
    LET keep == {i \in 1..Len(s) : s[i] \notin WhiteSpace}
    IN  IF keep = {} THEN <<>>
        ELSE LET lo == CHOOSE i \in keep : \A j \in keep : i <= j
                 hi == CHOOSE i \in keep : \A j \in keep : j <= i
             IN  SubSeq(s, lo, hi)

\* strings.LastIndex(s, ch), 1-based; 0 when ch does not occur (Go's -1)
LastIndex(s, ch) ==
    LET at == {i \in 1..Len(s) : s[i] = ch}
    IN  IF at = {} THEN 0 ELSE CHOOSE i \in at : \A j \in at : j <= i

(***************************************************************************)
(* Go error values.  errors.New and fmt.Errorf make a leaf whose text is   *)
(* the formatted message; errors.Join keeps the list of errors it joins    *)
(* and prints them one per line; fmt.Errorf("prefix: %w", err) prints the  *)
(* prefix and then the wrapped error.                                      *)
(***************************************************************************)
NilError == [kind |-> "nil", prefix |-> <<>>, errs |-> <<>>]

LeafError(text) == [kind |-> "leaf", prefix |-> <<>>, errs |-> <<text>>]

JoinErrors(errs) == [kind |-> "join", prefix |-> <<>>, errs |-> errs]

WrapError(prefix, err) == [kind |-> "wrap", prefix |-> <<prefix>>, errs |-> err.errs]

RECURSIVE JoinLines(_)
JoinLines(errs) ==
    IF Len(errs) = 0 THEN <<>>
    ELSE IF Len(errs) = 1 THEN errs[1]
    ELSE errs[1] \o <<"\n">> \o JoinLines(Tail(errs))

\* error.Error()
ErrorText(err) == err.prefix \o JoinLines(err.errs)

(***************************************************************************)
(* level.go                                                                *)
(***************************************************************************)
Str_debug   == <<"d","e","b","u","g">>
Str_info    == <<"i","n","f","o">>
Str_warn    == <<"w","a","r","n">>
Str_warning == <<"w","a","r","n","i","n","g">>
Str_error   == <<"e","r","r","o","r">>
Str_fatal   == <<"f","a","t","a","l">>

\* zapcore.Level values
ZapLevel == [debug |-> 0 - 1, info |-> 0, warn |-> 1, error |-> 2, fatal |-> 5]

\* a toZapLevel that switches on the Level as written
toZapLevel_CaseSensitive(l) ==
    LET s == l
    IN  IF s = Str_debug THEN [level |-> ZapLevel.debug, err |-> NilError]
        ELSE IF s = Str_info THEN [level |-> ZapLevel.info, err |-> NilError]
        ELSE IF s = Str_warn \/ s = Str_warning
             THEN [level |-> ZapLevel.warn, err |-> NilError]
        ELSE IF s = Str_error THEN [level |-> ZapLevel.error, err |-> NilError]
        ELSE IF s = Str_fatal THEN [level |-> ZapLevel.fatal, err |-> NilError]
        ELSE [level |-> ZapLevel.info,
              err |-> LeafError(<<"invalid log level: ">> \o l
                        \o <<" (valid: debug, info, warn, error, fatal)">>)]

toZapLevel(l) ==
    LET s == ToLower(l)
    IN  IF s = Str_debug THEN [level |-> ZapLevel.debug, err |-> NilError]
        ELSE IF s = Str_info THEN [level |-> ZapLevel.info, err |-> NilError]
        ELSE IF s = Str_warn \/ s = Str_warning
             THEN [level |-> ZapLevel.warn, err |-> NilError]
        ELSE IF s = Str_error THEN [level |-> ZapLevel.error, err |-> NilError]
        ELSE IF s = Str_fatal THEN [level |-> ZapLevel.fatal, err |-> NilError]
        ELSE [level |-> ZapLevel.info,
              err |-> LeafError(<<"invalid log level: ">> \o l
                        \o <<" (valid: debug, info, warn, error, fatal)">>)]

(***************************************************************************)
(* output.go                                                               *)
(***************************************************************************)
OutputStdout == <<"s","t","d","o","u","t">>
OutputFile   == <<"f","i","l","e">>

(***************************************************************************)
(* config.go                                                               *)
(***************************************************************************)
DefaultMaxSizeMB  == 100
DefaultMaxBackups == 3
DefaultMaxAgeDays == 28

Str_dev         == <<"d","e","v">>
Str_development == <<"d","e","v","e","l","o","p","m","e","n","t">>
Str_staging     == <<"s","t","a","g","i","n","g">>
Str_prod        == <<"p","r","o","d">>
Str_production  == <<"p","r","o","d","u","c","t","i","o","n">>

Msg_service  == <<"service name is required">>
Msg_env      == <<"environment is required">>
Msg_envOneOf == <<"environment must be one of: dev, development, staging, prod, production (got: ">>
Msg_level    == <<"log level is required">>
Msg_output   == <<"output type is required">>
Msg_outputOneOf == <<"output must be stdout or file (got: ">>
Msg_filePath == <<"file path is required when output is file">>

ServiceErrs(c) ==
    IF TrimSpace(c.Service) = <<>> THEN <<LeafError(Msg_service)>> ELSE <<>>

EnvErrs(c) ==
    IF TrimSpace(c.Env) = <<>> THEN <<LeafError(Msg_env)>>
    ELSE LET env == ToLower(TrimSpace(c.Env))
         IN  IF env # Str_dev /\ env # Str_development /\ env # Str_staging
                /\ env # Str_prod /\ env # Str_production
             THEN <<LeafError(Msg_envOneOf \o c.Env \o <<")">>)>>
             ELSE <<>>

\* a Validate that trims the level before parsing it
LevelErrs_Trimmed(c) ==
    IF c.Level = <<>> THEN <<LeafError(Msg_level)>>
    ELSE IF toZapLevel(TrimSpace(c.Level)).err # NilError
         THEN <<toZapLevel(TrimSpace(c.Level)).err>>
    ELSE <<>>

\* a Validate that checks the level against a list of names of its own,
\* one that toZapLevel does not know
LevelErrs_OwnList(c) ==
    IF c.Level = <<>> THEN <<LeafError(Msg_level)>>
    ELSE IF ToLower(c.Level) \notin {Str_debug, Str_info, Str_warn, Str_warning,
                                      Str_error, Str_fatal, <<"t","r","a","c","e">>}
         THEN <<toZapLevel(c.Level).err>>
    ELSE <<>>

LevelErrs(c) ==
    IF c.Level = <<>> THEN <<LeafError(Msg_level)>>
    ELSE IF toZapLevel(c.Level).err # NilError THEN <<toZapLevel(c.Level).err>>
    ELSE <<>>

OutputErrs(c) ==
    IF c.Output = <<>> THEN <<LeafError(Msg_output)>>
    ELSE IF c.Output # OutputStdout /\ c.Output # OutputFile
         THEN <<LeafError(Msg_outputOneOf \o c.Output \o <<")">>)>>
    ELSE <<>>

FilePathErrs(c) ==
    IF c.Output = OutputFile /\ TrimSpace(c.FilePath) = <<>>
    THEN <<LeafError(Msg_filePath)>> ELSE <<>>

\* a Validate that backfills only negative rotation values
FillDefaults_NegativeOnly(c) ==
    [c EXCEPT !.MaxSizeMB  = IF @ < 0 THEN DefaultMaxSizeMB ELSE @,
              !.MaxBackups = IF @ < 0 THEN DefaultMaxBackups ELSE @,
              !.MaxAgeDays = IF @ < 0 THEN DefaultMaxAgeDays ELSE @]

\* the rotation defaults Validate writes back into the Config
FillDefaults(c) ==
    [c EXCEPT !.MaxSizeMB  = IF @ <= 0 THEN DefaultMaxSizeMB ELSE @,
              !.MaxBackups = IF @ <= 0 THEN DefaultMaxBackups ELSE @,
              !.MaxAgeDays = IF @ <= 0 THEN DefaultMaxAgeDays ELSE @]

\* a Validate that returns at the first violation
Validate_FirstOnly(c) ==
    LET errs == ServiceErrs(c) \o EnvErrs(c) \o LevelErrs(c)
                  \o OutputErrs(c) \o FilePathErrs(c)
    IN  [cfg |-> FillDefaults(c),
         err |-> IF Len(errs) > 0 THEN JoinErrors(<<errs[1].errs[1]>>) ELSE NilError]

\* a Validate that writes the trimmed, lower-case environment back
Validate_NormalisesEnv(c) ==
    LET errs == ServiceErrs(c) \o EnvErrs(c) \o LevelErrs(c)
                  \o OutputErrs(c) \o FilePathErrs(c)
        leaves == [i \in 1..Len(errs) |-> errs[i].errs[1]]
    IN  [cfg |-> [FillDefaults(c) EXCEPT !.Env = ToLower(TrimSpace(@))],
         err |-> IF Len(errs) > 0 THEN JoinErrors(leaves) ELSE NilError]

\* a Validate that writes the trimmed level back after checking it
Validate_NormalisesLevel(c) ==
    LET errs == ServiceErrs(c) \o EnvErrs(c) \o LevelErrs(c)
                  \o OutputErrs(c) \o FilePathErrs(c)
        leaves == [i \in 1..Len(errs) |-> errs[i].errs[1]]
    IN  [cfg |-> [FillDefaults(c) EXCEPT !.Level = TrimSpace(@)],
         err |-> IF Len(errs) > 0 THEN JoinErrors(leaves) ELSE NilError]

\* (c *Config).Validate(): the Config afterwards and the error returned
Validate(c) ==
    LET errs == ServiceErrs(c) \o EnvErrs(c) \o LevelErrs(c)
                  \o OutputErrs(c) \o FilePathErrs(c)
        leaves == [i \in 1..Len(errs) |-> errs[i].errs[1]]
    IN  [cfg |-> FillDefaults(c),
         err |-> IF Len(errs) > 0 THEN JoinErrors(leaves) ELSE NilError]

(***************************************************************************)
(* The Config values an application may hold.                              *)
(***************************************************************************)
ServiceSet == { <<>>, <<" ">>, <<"s">>, <<" ","s","\t">> }

EnvSet ==
    { <<>>, <<" ">>, Str_dev, <<" ","D","e","v"," ">>, <<"P","R","O","D">>,
      Str_development, Str_staging, Str_production, <<"q","a">> }

LevelSet ==
    { <<>>, Str_debug, <<"I","N","F","O">>, Str_warn, <<"W","a","r","n","i","n","g">>,
      Str_error, Str_fatal, <<" ","i","n","f","o">>, <<"t","r","a","c","e">> }

OutputSet == { <<>>, OutputStdout, OutputFile, <<"F","i","l","e">> }

FilePathSet == { <<>>, <<" ">>, <<"/","app.log">> }

RotationSet == { 0 - 1, 0, 7 }

ConfigSet ==
    [Service : ServiceSet, Env : EnvSet, Level : LevelSet, Output : OutputSet,
     FilePath : FilePathSet, MaxSizeMB : RotationSet, MaxBackups : RotationSet,
     MaxAgeDays : RotationSet]

ZeroConfig ==
    [Service |-> <<>>, Env |-> <<>>, Level |-> <<>>, Output |-> <<>>,
     FilePath |-> <<>>, MaxSizeMB |-> 0, MaxBackups |-> 0, MaxAgeDays |-> 0]

(***************************************************************************)
(* field.go: a Field wraps a zap.Field; a zap.Field is a key and a value.  *)
(* Values are tagged, so that a null, a string and a time never compare    *)
(* equal.                                                                  *)
(***************************************************************************)
StrV(s) == [kind |-> "string", s |-> s]

NullV == [kind |-> "null", s |-> <<>>]

TimeV(t) == [kind |-> "time", s |-> <<ToString(t)>>]

\* zap.String(key, value)
ZapString(key, value) == [key |-> key, value |-> StrV(value)]

\* zap.Any(key, value): value is already a tagged value (NullV for a nil any)
ZapAny(key, value) == [key |-> key, value |-> value]

\* log.String(key, value)
String(key, value) == [zapField |-> ZapString(key, value)]

\* a toZapFields that keeps only the first field of each key
toZapFields_DropsRepeatedKeys(fields) ==
    LET zs == [i \in 1..Len(fields) |-> fields[i].zapField]
        first == {i \in 1..Len(zs) : \A j \in 1..(i - 1) : zs[j].key # zs[i].key}
        RECURSIVE Keep(_)
        Keep(i) == IF i > Len(zs) THEN <<>>
                   ELSE (IF i \in first THEN <<zs[i]>> ELSE <<>>) \o Keep(i + 1)
    IN  Keep(1)

toZapFields(fields) == [i \in 1..Len(fields) |-> fields[i].zapField]

(***************************************************************************)
(* caller.go                                                               *)
(***************************************************************************)
Str_unknown == <<"unknown">>

UnknownCaller == [file |-> Str_unknown, line |-> 0, function |-> Str_unknown]

\* runtime.Caller(n) on a stack whose innermost frame comes first
RuntimeCaller(stack_, n) ==
    IF n + 1 <= Len(stack_)
    THEN [ok |-> TRUE, frame |-> stack_[n + 1]]
    ELSE [ok |-> FALSE, frame |-> [file |-> <<>>, line |-> 0, fn |-> <<>>, hasFn |-> FALSE]]

\* filepath.Base
RECURSIVE StripTrailingSlashes(_)
StripTrailingSlashes(path) ==
    IF Len(path) > 0 /\ path[Len(path)] = "/"
    THEN StripTrailingSlashes(SubSeq(path, 1, Len(path) - 1))
    ELSE path

Base(path) ==
    IF path = <<>> THEN <<".">>
    ELSE LET p == StripTrailingSlashes(path)
             q == SubSeq(p, LastIndex(p, "/") + 1, Len(p))
         IN  IF q = <<>> THEN <<"/">> ELSE q

\* a getCaller that does not look at the ok result of runtime.Caller
getCaller_IgnoresOk(skip, stack_) ==
    LET c == RuntimeCaller(stack_, skip + 1)
        name == c.frame.fn
        idx == LastIndex(name, "/")
        funcName == IF ~c.frame.hasFn THEN Str_unknown
                    ELSE IF idx # 0 THEN SubSeq(name, idx + 1, Len(name))
                    ELSE name
    IN  [file |-> Base(c.frame.file), line |-> c.frame.line, function |-> funcName]

\* a getCaller that cuts the function name after its first "/"
getCaller_CutsAtFirstSeparator(skip, stack_) ==
    LET c == RuntimeCaller(stack_, skip + 1)
    IN  IF ~c.ok THEN UnknownCaller
        ELSE LET name == c.frame.fn
                 idx == IF \E i \in 1..Len(name) : name[i] = "/"
                        THEN CHOOSE i \in 1..Len(name) :
                                 name[i] = "/" /\ \A j \in 1..(i - 1) : name[j] # "/"
                        ELSE 0
                 funcName == IF ~c.frame.hasFn THEN Str_unknown
                             ELSE IF idx # 0 THEN SubSeq(name, idx + 1, Len(name))
                             ELSE name
             IN  [file |-> Base(c.frame.file), line |-> c.frame.line,
                  function |-> funcName]

\* a getCaller that passes skip, not skip+1, to runtime.Caller
getCaller_SkipsOneLess(skip, stack_) ==
    LET c == RuntimeCaller(stack_, skip)
    IN  IF ~c.ok THEN UnknownCaller
        ELSE LET name == c.frame.fn
                 idx == LastIndex(name, "/")
                 funcName == IF ~c.frame.hasFn THEN Str_unknown
                             ELSE IF idx # 0 THEN SubSeq(name, idx + 1, Len(name))
                             ELSE name
             IN  [file |-> Base(c.frame.file), line |-> c.frame.line,
                  function |-> funcName]

\* getCaller(skip), called with `stack` as the stack of its own invocation
getCaller(skip, stack_) ==
    LET c == RuntimeCaller(stack_, skip + 1)
    IN  IF ~c.ok THEN UnknownCaller
        ELSE LET name == c.frame.fn
                 idx == LastIndex(name, "/")
                 funcName == IF ~c.frame.hasFn THEN Str_unknown
                             ELSE IF idx # 0 THEN SubSeq(name, idx + 1, Len(name))
                             ELSE name
             IN  [file |-> Base(c.frame.file), line |-> c.frame.line,
                  function |-> funcName]

(***************************************************************************)
(* internal/zapimpl/logger.go and the zap calls of logger.go.  A           *)
(* *zap.Logger is immutable once built, so it is modelled by its value:    *)
(* the fields its encoder has accumulated (ctx), its minimum level and its *)
(* write syncer.                                                           *)
(***************************************************************************)
Str_file == <<"f","i","l","e">>

StdoutName == <<"os.Stdout">>

\* a BuildLogger that opens the log file eagerly and fails when it cannot
BuildLogger_OpensFile(service, env, level, outputType, filePath, maxSizeMB, maxBackups, maxAgeDays) ==
    IF outputType = Str_file /\ ~fs[filePath]
    THEN [logger |-> [ctx |-> <<>>, level |-> level,
                      out |-> [kind |-> "file", name |-> filePath, MaxSize |-> maxSizeMB,
                               MaxBackups |-> maxBackups, MaxAge |-> maxAgeDays]],
          err |-> LeafError(<<"open ">> \o filePath \o <<": permission denied">>)]
    ELSE [logger |->
            [ctx |-> <<ZapString("service", service), ZapString("env", env)>>,
             level |-> level,
             out |-> IF outputType = Str_file
                     THEN [kind |-> "file", name |-> filePath, MaxSize |-> maxSizeMB,
                           MaxBackups |-> maxBackups, MaxAge |-> maxAgeDays]
                     ELSE [kind |-> "stdout", name |-> StdoutName, MaxSize |-> 0,
                           MaxBackups |-> 0, MaxAge |-> 0]],
          err |-> NilError]

\* a BuildLogger whose core lets every level through
BuildLogger_IgnoresLevel(service, env, level, outputType, filePath, maxSizeMB, maxBackups, maxAgeDays) ==
    LET writeSyncer ==
            IF outputType = Str_file
            THEN [kind |-> "file", name |-> filePath, MaxSize |-> maxSizeMB,
                  MaxBackups |-> maxBackups, MaxAge |-> maxAgeDays]
            ELSE [kind |-> "stdout", name |-> StdoutName, MaxSize |-> 0,
                  MaxBackups |-> 0, MaxAge |-> 0]
        core == [ctx |-> <<>>, level |-> ZapLevel.debug, out |-> writeSyncer]
    IN  [logger |-> [core EXCEPT !.ctx =
                        @ \o <<ZapString("service", service), ZapString("env", env)>>],
         err |-> NilError]

BuildLogger(service, env, level, outputType, filePath, maxSizeMB, maxBackups, maxAgeDays) ==
    LET writeSyncer ==
            IF outputType = Str_file
            THEN [kind |-> "file", name |-> filePath, MaxSize |-> maxSizeMB,
                  MaxBackups |-> maxBackups, MaxAge |-> maxAgeDays]
            ELSE [kind |-> "stdout", name |-> StdoutName, MaxSize |-> 0,
                  MaxBackups |-> 0, MaxAge |-> 0]
        core == [ctx |-> <<>>, level |-> level, out |-> writeSyncer]
    IN  [logger |-> [core EXCEPT !.ctx =
                        @ \o <<ZapString("service", service), ZapString("env", env)>>],
         err |-> NilError]

\* (*zap.Logger).With: a clone whose encoder holds the parent's fields
\* followed by the new ones
ZapWith(z, zapFields) == [z EXCEPT !.ctx = @ \o zapFields]

\* zapcore.LowercaseLevelEncoder
LevelString(level) ==
    CASE level = ZapLevel.debug -> Str_debug
      [] level = ZapLevel.info -> Str_info
      [] level = ZapLevel.warn -> Str_warn
      [] level = ZapLevel.error -> Str_error
      [] level = ZapLevel.fatal -> Str_fatal

\* the core's level check
Enabled(z, level) == level >= z.level

\* the JSON encoder's EncodeEntry with the encoder config of BuildLogger:
\* level, timestamp and message keys, then the encoder's accumulated
\* fields, then the fields of the call
EncodeEntry(z, level, time, msg, zapFields) ==
    <<ZapString("level", LevelString(level)),
      ZapAny("timestamp", TimeV(time)),
      ZapString("message", msg)>> \o z.ctx \o zapFields

(***************************************************************************)
(* logger.go                                                               *)
(***************************************************************************)
NilLogger == 0

\* a New that does not validate the Config
New_SkipsValidate(c) ==
    LET lv == toZapLevel(c.Level)
    IN  IF lv.err # NilError
        THEN [zapLogger |-> <<>>, err |-> lv.err, built |-> FALSE, caller |-> c]
        ELSE [zapLogger |-> <<BuildLogger(c.Service, c.Env, lv.level, c.Output, c.FilePath,
                                c.MaxSizeMB, c.MaxBackups, c.MaxAgeDays).logger>>,
              err |-> NilError, built |-> TRUE, caller |-> c]

\* a New whose check of BuildLogger's error is inverted
New_InvertedBuildCheck(c) ==
    LET v == Validate(c)
        lv == toZapLevel(v.cfg.Level)
        b == BuildLogger(v.cfg.Service, v.cfg.Env, lv.level, v.cfg.Output,
                 v.cfg.FilePath, v.cfg.MaxSizeMB, v.cfg.MaxBackups, v.cfg.MaxAgeDays)
    IN  IF v.err # NilError
        THEN [zapLogger |-> <<>>, err |-> WrapError("invalid config: ", v.err),
              built |-> FALSE, caller |-> c]
        ELSE IF b.err = NilError
        THEN [zapLogger |-> <<>>, err |-> WrapError("failed to build logger: ", b.err),
              built |-> TRUE, caller |-> c]
        ELSE [zapLogger |-> <<b.logger>>, err |-> NilError, built |-> TRUE, caller |-> c]

\* a New that takes *Config: Validate's defaults land in the caller's Config
New_ByPointer(c) ==
    LET v == Validate(c)
        lv == toZapLevel(v.cfg.Level)
        b == BuildLogger(v.cfg.Service, v.cfg.Env, lv.level, v.cfg.Output,
                 v.cfg.FilePath, v.cfg.MaxSizeMB, v.cfg.MaxBackups, v.cfg.MaxAgeDays)
    IN  IF v.err # NilError
        THEN [zapLogger |-> <<>>, err |-> WrapError("invalid config: ", v.err),
              built |-> FALSE, caller |-> v.cfg]
        ELSE IF lv.err # NilError
        THEN [zapLogger |-> <<>>, err |-> lv.err, built |-> FALSE, caller |-> v.cfg]
        ELSE IF b.err # NilError
        THEN [zapLogger |-> <<>>, err |-> WrapError("failed to build logger: ", b.err),
              built |-> TRUE, caller |-> v.cfg]
        ELSE [zapLogger |-> <<b.logger>>, err |-> NilError, built |-> TRUE, caller |-> v.cfg]

\* New(cfg): cfg is New's own copy of the caller's Config.  zapLogger is
\* <<z>> for the Logger{zapLogger: z} returned, <<>> for a nil *Logger;
\* caller is the caller's Config when New returns.
New(c) ==
    LET v == Validate(c)
        lv == toZapLevel(v.cfg.Level)
        b == BuildLogger(v.cfg.Service, v.cfg.Env, lv.level, v.cfg.Output,
                 v.cfg.FilePath, v.cfg.MaxSizeMB, v.cfg.MaxBackups, v.cfg.MaxAgeDays)
    IN  IF v.err # NilError
        THEN [zapLogger |-> <<>>, err |-> WrapError("invalid config: ", v.err),
              built |-> FALSE, caller |-> c]
        ELSE IF lv.err # NilError
        THEN [zapLogger |-> <<>>, err |-> lv.err, built |-> FALSE, caller |-> c]
        ELSE IF b.err # NilError
        THEN [zapLogger |-> <<>>, err |-> WrapError("failed to build logger: ", b.err),
              built |-> TRUE, caller |-> c]
        ELSE [zapLogger |-> <<b.logger>>, err |-> NilError, built |-> TRUE, caller |-> c]

\* a With that allocates a Logger even when it is given no field
With_AlwaysAllocates(l, fields) ==
    [logger |-> Len(heap) + 1,
     heap |-> Append(heap, [zapLogger |-> ZapWith(heap[l].zapLogger, toZapFields(fields))])]

\* a With that builds the child from the root's fields only, forgetting
\* what the receiver had bound
With_ForgetsParent(l, fields) ==
    IF Len(fields) = 0 THEN [logger |-> l, heap |-> heap]
    ELSE LET z == heap[l].zapLogger
             base == [z EXCEPT !.ctx = SubSeq(@, 1, 2)]
         IN  [logger |-> Len(heap) + 1,
              heap |-> Append(heap, [zapLogger |-> ZapWith(base, toZapFields(fields))])]

\* a With that adds the fields to the receiver's own zap logger as well
With_MutatesReceiver(l, fields) ==
    IF Len(fields) = 0 THEN [logger |-> l, heap |-> heap]
    ELSE LET z == ZapWith(heap[l].zapLogger, toZapFields(fields))
         IN  [logger |-> Len(heap) + 1,
              heap |-> Append([heap EXCEPT ![l] = [zapLogger |-> z]], [zapLogger |-> z])]

\* a With that binds the fields on the root Logger's zap logger as well
With_BindsOnRoot(l, fields) ==
    IF Len(fields) = 0 THEN [logger |-> l, heap |-> heap]
    ELSE LET zapFields == toZapFields(fields)
         IN  [logger |-> Len(heap) + 1,
              heap |-> Append([heap EXCEPT ![1] =
                                  [zapLogger |-> ZapWith(heap[1].zapLogger, zapFields)]],
                              [zapLogger |-> ZapWith(heap[l].zapLogger, zapFields)])]

\* (l *Logger).With(fields...): the *Logger returned and the heap afterwards
With(l, fields) ==
    IF Len(fields) = 0 THEN [logger |-> l, heap |-> heap]
    ELSE LET zapFields == toZapFields(fields)
         IN  [logger |-> Len(heap) + 1,
              heap |-> Append(heap, [zapLogger |-> ZapWith(heap[l].zapLogger, zapFields)])]

PanicMessage == <<"log: ", "requestId cannot be empty">>

\* log methods that never check the request id
RequestIdEmpty_NeverChecked(requestId) == FALSE

\* the guard each log method opens with: requestId == ""
RequestIdEmpty(requestId) == requestId = <<>>

\* the frames of the library on top of the application's stack while
\* getCaller runs inside a log method
LibraryFrame(fn) ==
    [file |-> <<"/", "go", "/", "pkg", "/", "log", "/", "logger.go">>, line |-> 1,
     fn |-> <<"github.com", "/", "glennprays", "/", "log.", fn>>, hasFn |-> TRUE]

\* call-site fields that leave the metadata out when it is nil
CallSiteFields_OmitsNilMetadata(requestId, metadata, fields, caller) ==
    toZapFields(fields) \o
    <<ZapString("request_id", requestId)>> \o
    (IF metadata = NullV THEN <<>> ELSE <<ZapAny("metadata", metadata)>>) \o
    <<ZapString("caller", caller.file \o <<":", ToString(caller.line)>>),
      ZapString("function", caller.function)>>

\* call-site fields that put caller and function before the caller's fields
CallSiteFields_CallerFirst(requestId, metadata, fields, caller) ==
    <<ZapString("caller", caller.file \o <<":", ToString(caller.line)>>),
      ZapString("function", caller.function)>> \o
    toZapFields(fields) \o
    <<ZapString("request_id", requestId),
      ZapAny("metadata", metadata)>>

\* the zap fields a log method passes to zap: the caller's fields, then
\* request_id, metadata, caller and function
CallSiteFields(requestId, metadata, fields, caller) ==
    toZapFields(fields) \o
    <<ZapString("request_id", requestId),
      ZapAny("metadata", metadata),
      ZapString("caller", caller.file \o <<":", ToString(caller.line)>>),
      ZapString("function", caller.function)>>

(***************************************************************************)
(* What the application passes in.                                         *)
(***************************************************************************)
Str_svc == <<" ", "s", "v", "c">>

LogPath == <<"/", "var", "/", "app.log">>

ReadOnlyPath == <<"/", "ro", "/", "app.log">>

GoodConfig ==
    [Service |-> Str_svc, Env |-> <<"D","e","v"," ">>, Level |-> Str_debug,
     Output |-> OutputStdout, FilePath |-> <<>>,
     MaxSizeMB |-> 0, MaxBackups |-> 0, MaxAgeDays |-> 0]

NewConfigSet ==
    { GoodConfig,
      [GoodConfig EXCEPT !.Level = <<"W","A","R","N","I","N","G">>, !.Output = OutputFile,
                         !.FilePath = LogPath, !.MaxSizeMB = 0 - 1, !.MaxAgeDays = 7],
      [GoodConfig EXCEPT !.Level = Str_error, !.Output = OutputFile,
                         !.FilePath = ReadOnlyPath, !.MaxBackups = 5],
      [GoodConfig EXCEPT !.Service = <<" ">>],
      [GoodConfig EXCEPT !.Env = <<>>],
      [GoodConfig EXCEPT !.Level = <<" ","i","n","f","o">>],
      [GoodConfig EXCEPT !.Output = OutputFile, !.FilePath = <<" ">>],
      [GoodConfig EXCEPT !.Output = <<"F","i","l","e">>, !.FilePath = LogPath],
      [GoodConfig EXCEPT !.Service = <<>>, !.Env = <<"q","a">>, !.Level = <<>>,
                         !.Output = OutputFile] }

SinkNames == {StdoutName, LogPath, ReadOnlyPath}

F_user == String("user_id", <<"u","1">>)
F_layer == String("layer", <<"a","p","i">>)
F_service == String("service", <<"x">>)
F_user2 == String("user_id", <<"u","2">>)

WithFieldSet == { <<>>, <<F_user>>, <<F_layer, F_service>> }

AppFrame_main ==
    [file |-> <<"/", "app", "/", "main.go">>, line |-> 42, fn |-> <<"main.main">>,
     hasFn |-> TRUE]

AppFrame_handler ==
    [file |-> <<"/", "app", "/", "api", "/", "handler.go">>, line |-> 7,
     fn |-> <<"example.com", "/", "app", "/", "api.(*Handler).Serve">>, hasFn |-> TRUE]

CallSet ==
    { [requestId |-> <<>>, msg |-> <<"m","0">>, metadata |-> NullV, fields |-> <<>>,
       stack |-> <<AppFrame_main>>],
      \* a call whose calling frame the runtime cannot recover
      [requestId |-> <<"r","1">>, msg |-> <<"m","1">>, metadata |-> NullV, fields |-> <<>>,
       stack |-> <<>>],
      [requestId |-> <<" ">>, msg |-> <<"m","2">>, metadata |-> StrV(<<"m","d">>),
       fields |-> <<F_service, F_user, F_user2>>,
       stack |-> <<AppFrame_handler, AppFrame_main>>] }

Threads == 1..MaxThreads

IdleThread ==
    [pc |-> "idle", by |-> NilLogger, sink |-> <<>>, bytes |-> <<>>, sent |-> 0,
     nfields |-> 0, at |-> 0]

\* no goroutine has started a log call
NoGoroutines ==
    /\ thr = [t \in Threads |-> IdleThread]
    /\ mu = [n \in SinkNames |-> 0]
    /\ wire = [n \in SinkNames |-> <<>>]
    /\ stack = <<>>

Ret0 ==
    [op |-> "none", recv |-> NilLogger, cfg |-> ZeroConfig, requestId |-> <<>>,
     fields |-> <<>>, logger |-> NilLogger, err |-> NilError, built |-> FALSE,
     panic |-> <<>>, level |-> 0, flush |-> NilError, skip |-> 0,
     caller |-> UnknownCaller]

(***************************************************************************)
(* The operations of the library, as the application calls them.           *)
(***************************************************************************)
CallNew ==
    /\ ~exited
    /\ CanAllocate(Len(heap), clock)
    /\ LET r == New(cfg)
       IN  IF r.err = NilError
           THEN /\ heap' = Append(heap, [zapLogger |-> r.zapLogger[1]])
                /\ origin' = Append(origin, [parent |-> NilLogger, fields |-> <<>>, at |-> clock])
                /\ ret' = [Ret0 EXCEPT !.op = "New", !.cfg = cfg,
                             !.logger = Len(heap) + 1, !.built = r.built]
           ELSE /\ ret' = [Ret0 EXCEPT !.op = "New", !.cfg = cfg, !.err = r.err,
                             !.built = r.built]
                /\ UNCHANGED <<heap, origin>>
    /\ cfg' = New(cfg).caller
    /\ UNCHANGED <<vcalls, streams, fs, clock, exited>>
    /\ UNCHANGED <<thr, mu, wire, stack>>

CallWith ==
    /\ ~exited
    /\ CanAllocate(Len(heap), clock)
    /\ \E l \in 1..Len(heap), fields \in WithFieldSet :
        LET r == With(l, fields)
        IN  /\ heap' = r.heap
            /\ origin' = IF Len(r.heap) > Len(heap)
                         THEN Append(origin, [parent |-> l, fields |-> fields, at |-> clock])
                         ELSE origin
            /\ ret' = [Ret0 EXCEPT !.op = "With", !.recv = l, !.fields = fields,
                         !.logger = r.logger]
    /\ UNCHANGED <<cfg, vcalls, streams, fs, clock, exited>>
    /\ UNCHANGED <<thr, mu, wire, stack>>

\* the zap level each log method logs at
LevelOf ==
    [Debug |-> ZapLevel.debug, Info |-> ZapLevel.info, Warn |-> ZapLevel.warn,
     Error |-> ZapLevel.error, Fatal |-> ZapLevel.fatal]

\* the sink takes what is written to it
SinkWritable(out) == out.kind = "stdout" \/ fs[out.name]

\* a Fatal that logs through a zap method that returns
ZapExits_Never(level) == FALSE

\* (*zap.Logger).Fatal calls os.Exit(1) once the entry has been handed to
\* the core; Debug, Info, Warn and Error return
ZapExits(level) == level = ZapLevel.fatal

\* a sink that receives its entries out of the order of the calls
SinkWrite_OutOfOrder(stream, entry) == <<entry>> \o stream

\* the write syncers of BuildLogger are unbuffered: the entry of a call is
\* at the end of the sink's stream when the log method returns
SinkWrite(stream, entry) == Append(stream, entry)

\* a log method that asks the core whether the level is enabled before it
\* looks at the request id
LogCall_FiltersLevelFirst(op, level, l, call) ==
    IF ~Enabled(heap[l].zapLogger, level)
    THEN /\ ret' = [Ret0 EXCEPT !.op = op, !.recv = l, !.requestId = call.requestId]
         /\ UNCHANGED <<heap, origin, streams, clock, exited>>
    ELSE IF RequestIdEmpty(call.requestId)
    THEN /\ ret' = [Ret0 EXCEPT !.op = op, !.recv = l, !.requestId = call.requestId,
                      !.panic = PanicMessage]
         /\ UNCHANGED <<heap, origin, streams, clock, exited>>
    ELSE LET z == heap[l].zapLogger
             caller == getCaller(1, <<LibraryFrame("getCaller"), LibraryFrame(op)>>
                                       \o call.stack)
             zapFields == CallSiteFields(call.requestId, call.metadata, call.fields, caller)
             entry == [by |-> l, op |-> op, call |-> call, at |-> clock + 1,
                       fields |-> EncodeEntry(z, level, clock + 1, call.msg, zapFields)]
         IN  /\ ret' = [Ret0 EXCEPT !.op = op, !.recv = l, !.requestId = call.requestId]
             /\ clock' = clock + 1
             /\ streams' = IF SinkWritable(z.out)
                           THEN [streams EXCEPT ![z.out.name] = SinkWrite(@, entry)]
                           ELSE streams
             /\ exited' = ZapExits(level)
             /\ UNCHANGED <<heap, origin>>

\* one of Debug, Info, Warn, Error, Fatal on logger l
LogCall(op, level, l, call) ==
    IF RequestIdEmpty(call.requestId)
    THEN /\ ret' = [Ret0 EXCEPT !.op = op, !.recv = l, !.requestId = call.requestId,
                      !.panic = PanicMessage]
         /\ UNCHANGED <<heap, origin, streams, clock, exited>>
    ELSE LET z == heap[l].zapLogger
             caller == getCaller(1, <<LibraryFrame("getCaller"), LibraryFrame(op)>>
                                       \o call.stack)
             zapFields == CallSiteFields(call.requestId, call.metadata, call.fields, caller)
             entry == [by |-> l, op |-> op, call |-> call, at |-> clock + 1,
                       fields |-> EncodeEntry(z, level, clock + 1, call.msg, zapFields)]
             written == SinkWritable(z.out)
         IN  /\ ret' = [Ret0 EXCEPT !.op = op, !.recv = l, !.requestId = call.requestId]
             /\ IF Enabled(z, level)
                THEN /\ clock' = clock + 1
                     /\ streams' = IF written
                                   THEN [streams EXCEPT ![z.out.name] = SinkWrite(@, entry)]
                                   ELSE streams
                ELSE UNCHANGED <<clock, streams>>
             /\ exited' = ZapExits(level)
             /\ UNCHANGED <<heap, origin>>

Debug ==
    /\ ~exited /\ CanEmit(Len(heap), clock)
    /\ \E l \in 1..Len(heap), call \in CallSet : LogCall("Debug", ZapLevel.debug, l, call)
    /\ UNCHANGED <<cfg, vcalls, fs>>
    /\ UNCHANGED <<thr, mu, wire, stack>>

Info ==
    /\ ~exited /\ CanEmit(Len(heap), clock)
    /\ \E l \in 1..Len(heap), call \in CallSet : LogCall("Info", ZapLevel.info, l, call)
    /\ UNCHANGED <<cfg, vcalls, fs>>
    /\ UNCHANGED <<thr, mu, wire, stack>>

Warn ==
    /\ ~exited /\ CanEmit(Len(heap), clock)
    /\ \E l \in 1..Len(heap), call \in CallSet : LogCall("Warn", ZapLevel.warn, l, call)
    /\ UNCHANGED <<cfg, vcalls, fs>>
    /\ UNCHANGED <<thr, mu, wire, stack>>

Error ==
    /\ ~exited /\ CanEmit(Len(heap), clock)
    /\ \E l \in 1..Len(heap), call \in CallSet : LogCall("Error", ZapLevel.error, l, call)
    /\ UNCHANGED <<cfg, vcalls, fs>>
    /\ UNCHANGED <<thr, mu, wire, stack>>

Fatal ==
    /\ ~exited /\ CanEmit(Len(heap), clock)
    /\ \E l \in 1..Len(heap), call \in CallSet : LogCall("Fatal", ZapLevel.fatal, l, call)
    /\ UNCHANGED <<cfg, vcalls, fs>>
    /\ UNCHANGED <<thr, mu, wire, stack>>

\* what fsync on standard output can return
StdoutSyncErrs == {NilError, LeafError(<<"sync /dev/stdout: invalid argument">>)}

\* (*zap.Logger).Sync, the flush of the backend: os.Stdout's Sync may fail;
\* the rotating file writer has no Sync method, so zapcore.AddSync gives it
\* one that returns nil
ZapSync(z, stdoutErr) == IF z.out.kind = "stdout" THEN stdoutErr ELSE NilError

\* a Sync that drops the error of the flush
LoggerSync_DropsError(l, stdoutErr) == NilError

\* (l *Logger).Sync
LoggerSync(l, stdoutErr) == ZapSync(heap[l].zapLogger, stdoutErr)

Sync ==
    /\ ~exited
    /\ \E l \in 1..Len(heap), stdoutErr \in StdoutSyncErrs :
        ret' = [Ret0 EXCEPT !.op = "Sync", !.recv = l,
                  !.err = LoggerSync(l, stdoutErr),
                  !.flush = ZapSync(heap[l].zapLogger, stdoutErr)]
    /\ UNCHANGED <<cfg, vcalls, heap, origin, streams, fs, clock, exited>>
    /\ UNCHANGED <<thr, mu, wire, stack>>

Init ==
    /\ cfg \in NewConfigSet
    /\ vcalls = <<>>
    /\ heap = <<>>
    /\ origin = <<>>
    /\ streams = [n \in SinkNames |-> <<>>]
    /\ fs = [p \in {LogPath, ReadOnlyPath} |-> p = LogPath]
    /\ clock = 0
    /\ exited = FALSE
    /\ ret = Ret0
    /\ NoGoroutines

Next == CallNew \/ CallWith \/ Debug \/ Info \/ Warn \/ Error \/ Fatal \/ Sync

Spec == Init /\ [][Next]_vars

(***************************************************************************)
(* Config.Validate on its own: the application holds any Config of         *)
(* ConfigSet and calls cfg.Validate() on it.                               *)
(***************************************************************************)
CallValidate ==
    /\ Len(vcalls) < MaxValidateCalls
    /\ LET v == Validate(cfg)
       IN  /\ cfg' = v.cfg
           /\ vcalls' = Append(vcalls, [pre |-> cfg, post |-> v.cfg, err |-> v.err])
    /\ UNCHANGED <<heap, origin, streams, fs, clock, exited, ret>>
    /\ UNCHANGED <<thr, mu, wire, stack>>

InitConfig ==
    /\ cfg \in ConfigSet
    /\ vcalls = <<>>
    /\ heap = <<>>
    /\ origin = <<>>
    /\ streams = [n \in SinkNames |-> <<>>]
    /\ fs = [p \in {LogPath, ReadOnlyPath} |-> p = LogPath]
    /\ clock = 0
    /\ exited = FALSE
    /\ ret = Ret0
    /\ NoGoroutines

NextConfig == CallValidate

SpecConfig == InitConfig /\ [][NextConfig]_vars

(***************************************************************************)
(* Level.toZapLevel on its own: the application holds a Level, any casing  *)
(* of a level name or something else, and converts it.                     *)
(***************************************************************************)
UpperChar(c) ==
    IF \E i \in 1..Len(LowerLetters) : LowerLetters[i] = c
    THEN UpperLetters[CHOOSE i \in 1..Len(LowerLetters) : LowerLetters[i] = c]
    ELSE c

\* every way of writing `name` in upper and lower case letters
Casings(name) ==
    { t \in [1..Len(name) -> {name[i] : i \in 1..Len(name)}
                                 \cup {UpperChar(name[i]) : i \in 1..Len(name)}] :
        \A i \in 1..Len(name) : t[i] \in {name[i], UpperChar(name[i])} }

LevelInputSet ==
    UNION {Casings(n) : n \in {Str_debug, Str_info, Str_warn, Str_error, Str_fatal}}
    \cup {Str_warning, <<"W","a","r","n","i","n","g">>, <<"W","A","R","N","I","N","G">>}
    \cup { <<>>, <<" ">>, <<" ","i","n","f","o">>, <<"i","n","f","o"," ">>,
           <<"t","r","a","c","e">>, <<"w","a","r","n","s">>, <<"e","r","r">>,
           <<"i","n","f","0">>, <<"p","a","n","i","c">>, <<"w","a","r","n","i","n">>,
           <<"d","e","b","u","g","/","i","n","f","o">> }

CallToZapLevel ==
    /\ ret.op = "none"
    /\ LET r == toZapLevel(cfg.Level)
       IN  ret' = [Ret0 EXCEPT !.op = "toZapLevel", !.cfg = cfg, !.level = r.level,
                     !.err = r.err]
    /\ UNCHANGED <<cfg, vcalls, heap, origin, streams, fs, clock, exited>>
    /\ UNCHANGED <<thr, mu, wire, stack>>

InitLevel ==
    /\ cfg \in {[ZeroConfig EXCEPT !.Level = l] : l \in LevelInputSet}
    /\ vcalls = <<>>
    /\ heap = <<>>
    /\ origin = <<>>
    /\ streams = [n \in SinkNames |-> <<>>]
    /\ fs = [p \in {LogPath, ReadOnlyPath} |-> p = LogPath]
    /\ clock = 0
    /\ exited = FALSE
    /\ ret = Ret0
    /\ NoGoroutines

NextLevel == CallToZapLevel

SpecLevel == InitLevel /\ [][NextLevel]_vars

(***************************************************************************)
(* getCaller on its own: it is called with skip 0, 1 or 2 from a log       *)
(* method that some function of the application has called.                *)
(***************************************************************************)
FileSet ==
    { <<"main.go">>,
      <<"/", "main.go">>,
      <<"/", "app", "/", "main.go">>,
      <<"/", "home", "/", "u", "/", "go", "/", "src", "/", "api", "/", "handler.go">>,
      <<"C:", "/", "work", "/", "svc", "/", "a b.go">> }

FuncNameSet ==
    { <<"main.main">>,
      <<"main.init.func1">>,
      <<"app", "/", "api.Serve">>,
      <<"example.com", "/", "app", "/", "api.(*Handler).Serve">>,
      <<"github.com", "/", "a", "/", "b", "/", "v2", "/", "c.F[...]">> }

\* a frame whose function the runtime cannot name has no name at all
FrameSet ==
    { f \in [file : FileSet, line : {7, 42}, fn : FuncNameSet \cup {<<>>},
              hasFn : BOOLEAN] : f.hasFn <=> f.fn # <<>> }

CallGetCaller ==
    /\ ret.op = "none"
    /\ \E skip \in 0..2 :
          ret' = [Ret0 EXCEPT !.op = "getCaller", !.skip = skip,
                    !.caller = getCaller(skip, stack)]
    /\ UNCHANGED <<cfg, vcalls, heap, origin, streams, fs, clock, exited, thr, mu, wire,
                   stack>>

InitCaller ==
    /\ stack \in {<<LibraryFrame("getCaller"), LibraryFrame("Info"), f>> : f \in FrameSet}
    /\ cfg = GoodConfig
    /\ vcalls = <<>>
    /\ heap = <<>>
    /\ origin = <<>>
    /\ streams = [n \in SinkNames |-> <<>>]
    /\ fs = [p \in {LogPath, ReadOnlyPath} |-> p = LogPath]
    /\ clock = 0
    /\ exited = FALSE
    /\ ret = Ret0
    /\ thr = [t \in Threads |-> IdleThread]
    /\ mu = [n \in SinkNames |-> 0]
    /\ wire = [n \in SinkNames |-> <<>>]

NextCaller == CallGetCaller

SpecCaller == InitCaller /\ [][NextCaller]_vars

(***************************************************************************)
(* Goroutines logging at the same time through Loggers that share a sink.  *)
(* A log method encodes its entry into a buffer of its own and hands the   *)
(* buffer to the sink in one Write call; the sink may take the bytes of    *)
(* one Write in more than one piece.                                       *)
(***************************************************************************)
\* zapcore.DefaultLineEnding, as a token of the stream
LineEnding == [key |-> "\n", value |-> NullV]

ConcOps == {"Info", "Error"}

\* a writer that lets the Write calls of several goroutines run together
SerializesWrites_Never(out) == FALSE

\* the writers BuildLogger hands to zapcore.AddSync, *lumberjack.Logger and
\* os.Stdout, each hold a mutex of their own for the whole of a Write call
SerializesWrites(out) == out.kind \in {"file", "stdout"}

\* the log method up to the encoded entry
T_Call(t) ==
    /\ thr[t].pc = "idle"
    /\ \E l \in 1..Len(heap), op \in ConcOps, call \in CallSet :
        /\ ~RequestIdEmpty(call.requestId)
        /\ LET z == heap[l].zapLogger
               caller == getCaller(1, <<LibraryFrame("getCaller"), LibraryFrame(op)>>
                                         \o call.stack)
               zapFields == CallSiteFields(call.requestId, call.metadata, call.fields,
                                           caller)
               buf == EncodeEntry(z, LevelOf[op], clock + 1, call.msg, zapFields)
                        \o <<LineEnding>>
           IN  IF Enabled(z, LevelOf[op])
               THEN /\ thr' = [thr EXCEPT ![t] = [pc |-> "encoded", by |-> l,
                                                  sink |-> z.out.name, bytes |-> buf,
                                                  sent |-> 0,
                                                  nfields |-> Len(call.fields),
                                                  at |-> clock + 1]]
                    /\ clock' = clock + 1
               ELSE /\ thr' = [thr EXCEPT ![t] = [IdleThread EXCEPT !.pc = "done", !.by = l]]
                    /\ UNCHANGED clock
    /\ UNCHANGED <<cfg, vcalls, heap, origin, streams, fs, exited, ret, mu, wire>>
    /\ UNCHANGED stack

\* Write of the sink's writer is entered
T_Acquire(t) ==
    /\ thr[t].pc = "encoded"
    /\ LET out == heap[thr[t].by].zapLogger.out
       IN  IF SerializesWrites(out)
           THEN /\ mu[thr[t].sink] = 0
                /\ mu' = [mu EXCEPT ![thr[t].sink] = t]
           ELSE UNCHANGED mu
    /\ thr' = [thr EXCEPT ![t].pc = "writing"]
    /\ UNCHANGED <<cfg, vcalls, heap, origin, streams, fs, clock, exited, ret, wire>>
    /\ UNCHANGED stack

\* the sink takes the rest of the buffer, or only the first half of it
T_Write(t) ==
    /\ thr[t].pc = "writing"
    /\ thr[t].sent < Len(thr[t].bytes)
    /\ \E n \in {Len(thr[t].bytes) - thr[t].sent, (Len(thr[t].bytes) - thr[t].sent + 1) \div 2} :
        /\ wire' = [wire EXCEPT ![thr[t].sink] =
                       @ \o SubSeq(thr[t].bytes, thr[t].sent + 1, thr[t].sent + n)]
        /\ thr' = [thr EXCEPT ![t].sent = @ + n]
    /\ UNCHANGED <<cfg, vcalls, heap, origin, streams, fs, clock, exited, ret, mu>>
    /\ UNCHANGED stack

\* Write returns, and the log method with it
T_Return(t) ==
    /\ thr[t].pc = "writing"
    /\ thr[t].sent = Len(thr[t].bytes)
    /\ mu' = [mu EXCEPT ![thr[t].sink] = IF @ = t THEN 0 ELSE @]
    /\ thr' = [thr EXCEPT ![t].pc = "done"]
    /\ UNCHANGED <<cfg, vcalls, heap, origin, streams, fs, clock, exited, ret, wire>>
    /\ UNCHANGED stack

\* With, called by a goroutine while others log
T_With(t) ==
    /\ thr[t].pc = "idle"
    /\ Len(heap) < MaxLoggers
    /\ \E l \in 1..Len(heap), fields \in WithFieldSet :
        LET r == With(l, fields)
        IN  /\ heap' = r.heap
            /\ origin' = IF Len(r.heap) > Len(heap)
                         THEN Append(origin, [parent |-> l, fields |-> fields, at |-> clock])
                         ELSE origin
            /\ thr' = [thr EXCEPT ![t] = [IdleThread EXCEPT !.pc = "done", !.by = r.logger]]
    /\ UNCHANGED <<cfg, vcalls, streams, fs, clock, exited, ret, mu, wire, stack>>

ConcConfigSet ==
    {c \in NewConfigSet : New(c).err = NilError /\ c.FilePath # ReadOnlyPath}

\* the application has built a root Logger and derived a child from it
InitConc ==
    /\ cfg \in ConcConfigSet
    /\ vcalls = <<>>
    /\ heap = LET z == New(cfg).zapLogger[1]
              IN  << [zapLogger |-> z],
                     [zapLogger |-> ZapWith(z, toZapFields(<<F_user>>))] >>
    /\ origin = << [parent |-> NilLogger, fields |-> <<>>, at |-> 0],
                   [parent |-> 1, fields |-> <<F_user>>, at |-> 0] >>
    /\ streams = [n \in SinkNames |-> <<>>]
    /\ fs = [p \in {LogPath, ReadOnlyPath} |-> p = LogPath]
    /\ clock = 0
    /\ exited = FALSE
    /\ ret = Ret0
    /\ NoGoroutines

NextConc ==
    \E t \in Threads : T_Call(t) \/ T_With(t) \/ T_Acquire(t) \/ T_Write(t) \/ T_Return(t)

SpecConc == InitConc /\ [][NextConc]_vars

(***************************************************************************)
(* One goroutine logging through a root Logger and a child of it, which    *)
(* share a sink, and calling Sync.                                         *)
(***************************************************************************)
FifoOps == {"Info", "Error"}

FifoLog ==
    /\ ~exited
    /\ clock < MaxFifoCalls
    /\ \E l \in 1..Len(heap), op \in FifoOps, call \in CallSet :
          LogCall(op, LevelOf[op], l, call)
    /\ UNCHANGED <<cfg, vcalls, fs, thr, mu, wire, stack>>

InitFifo == InitConc

NextFifo == FifoLog \/ Sync

SpecFifo == InitFifo /\ [][NextFifo]_vars

(***************************************************************************)
(* The rules of a valid Config, as the documentation states them.          *)
(***************************************************************************)
EnvNames == {Str_dev, Str_development, Str_staging, Str_prod, Str_production}

LevelNames == {Str_debug, Str_info, Str_warn, Str_warning, Str_error, Str_fatal}

ServiceOk(c) == TrimSpace(c.Service) # <<>>

EnvOk(c) == ToLower(TrimSpace(c.Env)) \in EnvNames

LevelOk(c) == ToLower(c.Level) \in LevelNames

OutputOk(c) == c.Output \in {OutputStdout, OutputFile}

FilePathOk(c) == c.Output = OutputFile => TrimSpace(c.FilePath) # <<>>

RuleOrder == <<"service", "environment", "level", "output", "file path">>

RuleOk(c, rule) ==
    CASE rule = "service" -> ServiceOk(c)
      [] rule = "environment" -> EnvOk(c)
      [] rule = "level" -> LevelOk(c)
      [] rule = "output" -> OutputOk(c)
      [] rule = "file path" -> FilePathOk(c)

\* the rule a message of Validate speaks of, read off the message text
RuleOfMessage(text) ==
    CASE text[1] = Msg_service[1] -> "service"
      [] text[1] \in {Msg_env[1], Msg_envOneOf[1]} -> "environment"
      [] text[1] \in {Msg_level[1], "invalid log level: "} -> "level"
      [] text[1] \in {Msg_output[1], Msg_outputOneOf[1]} -> "output"
      [] text[1] = Msg_filePath[1] -> "file path"
      [] OTHER -> "?"

ViolatedRules(c) ==
    LET Bad(rule) == ~RuleOk(c, rule) IN SelectSeq(RuleOrder, Bad)

\* C1: Validate returns nil exactly when the service, environment, level,
\* output and file path rules all hold of the Config it was called on.
C1_ValidateNilIffAllRulesHold ==
    \A k \in 1..Len(vcalls) :
        (vcalls[k].err = NilError) <=>
            ( /\ ServiceOk(vcalls[k].pre)
              /\ EnvOk(vcalls[k].pre)
              /\ LevelOk(vcalls[k].pre)
              /\ OutputOk(vcalls[k].pre)
              /\ FilePathOk(vcalls[k].pre) )

C1_Witness ==
    \E k \in 1..Len(vcalls) :
        /\ vcalls[k].err = NilError
        /\ vcalls[k].pre.Env # ToLower(TrimSpace(vcalls[k].pre.Env))
        /\ vcalls[k].pre.Level # ToLower(vcalls[k].pre.Level)
        /\ vcalls[k].pre.Output = OutputFile

\* C2: the error Validate returns is one combined error holding exactly one
\* message per violated rule, in the order service, environment, level,
\* output, file path, and no message for a rule that passed.
C2_ValidateCollectsEveryViolation ==
    \A k \in 1..Len(vcalls) :
        LET e == vcalls[k].err
            bad == ViolatedRules(vcalls[k].pre)
        IN  /\ Len(e.errs) = Len(bad)
            /\ \A i \in 1..Len(e.errs) : RuleOfMessage(e.errs[i]) = bad[i]
            /\ Len(bad) > 0 => e.kind = "join"

C2_Witness ==
    \E k \in 1..Len(vcalls) :
        /\ Len(vcalls[k].err.errs) = 4
        /\ ~FilePathOk(vcalls[k].pre)

\* C6: after Validate, a rotation field that was <= 0 holds its default
\* (100, 3, 28) and a positive one keeps its value, whether Validate
\* returned nil or an error.
C6_RotationDefaults ==
    /\ \A k \in 1..Len(vcalls) :
        LET pre == vcalls[k].pre
            post == vcalls[k].post
        IN  /\ post.MaxSizeMB = IF pre.MaxSizeMB <= 0 THEN 100 ELSE pre.MaxSizeMB
            /\ post.MaxBackups = IF pre.MaxBackups <= 0 THEN 3 ELSE pre.MaxBackups
            /\ post.MaxAgeDays = IF pre.MaxAgeDays <= 0 THEN 28 ELSE pre.MaxAgeDays
    /\ Len(vcalls) > 0 => cfg = vcalls[Len(vcalls)].post

C6_Witness ==
    \E k \in 1..Len(vcalls) :
        /\ vcalls[k].err # NilError
        /\ vcalls[k].pre.MaxSizeMB = 0
        /\ vcalls[k].pre.MaxBackups < 0
        /\ vcalls[k].pre.MaxAgeDays > 0
        /\ vcalls[k].post.MaxSizeMB = 100

(***************************************************************************)
(* What the claims about New, With and the log methods speak of.           *)
(***************************************************************************)
AllRulesOk(c) == \A i \in 1..Len(RuleOrder) : RuleOk(c, RuleOrder[i])

\* the rules an error text names, in the order in which it names them
RulesNamedIn(text) ==
    LET IsHead(tok) == RuleOfMessage(<<tok>>) # "?"
        heads == SelectSeq(text, IsHead)
    IN  [i \in 1..Len(heads) |-> RuleOfMessage(<<heads[i]>>)]

Contains(text, tok) == \E i \in 1..Len(text) : text[i] = tok

\* every entry a sink has received
Entries == UNION {{streams[n][i] : i \in 1..Len(streams[n])} : n \in DOMAIN streams}

\* the fields given to the With calls that lead from the root to logger l
RECURSIVE WithChain(_)
WithChain(l) ==
    IF origin[l].parent = NilLogger THEN <<>>
    ELSE WithChain(origin[l].parent) \o origin[l].fields

ZapFieldOf(f) == f.zapField

HasKey(e, k) == \E i \in 1..Len(e.fields) : e.fields[i].key = k

HasPair(e, k, v) == \E i \in 1..Len(e.fields) : e.fields[i] = [key |-> k, value |-> v]

HasBlock(e, block) ==
    \E k \in 1..(Len(e.fields) + 1) :
        /\ k + Len(block) - 1 <= Len(e.fields)
        /\ SubSeq(e.fields, k, k + Len(block) - 1) = block

MethodName ==
    [Debug |-> <<"D","e","b","u","g">>, Info |-> <<"I","n","f","o">>,
     Warn |-> <<"W","a","r","n">>, Error |-> <<"E","r","r","o","r">>,
     Fatal |-> <<"F","a","t","a","l">>]

\* C3: for a Config with a missing service, a missing env, an unrecognized
\* level or output=file with an empty file path, New returns a nil Logger
\* and an error whose text names each violated rule ("service name is
\* required" for an empty service), and builds no backend.
C3_NewRejectsInvalidConfig ==
    ( /\ ret.op = "New"
      /\ \/ ~ServiceOk(ret.cfg)
         \/ TrimSpace(ret.cfg.Env) = <<>>
         \/ ~LevelOk(ret.cfg)
         \/ ~FilePathOk(ret.cfg) )
    => /\ ret.logger = NilLogger
       /\ ret.err # NilError
       /\ ~ret.built
       /\ RulesNamedIn(ErrorText(ret.err)) = ViolatedRules(ret.cfg)
       /\ ~ServiceOk(ret.cfg) => Contains(ErrorText(ret.err), "service name is required")

C3_Witness ==
    /\ ret.op = "New"
    /\ ret.cfg.Service = <<>>
    /\ ~LevelOk(ret.cfg)
    /\ ~FilePathOk(ret.cfg)
    /\ ret.logger = NilLogger
    /\ Len(ret.err.errs) = 4

\* C4: for every Config that passes validation, New returns a nil error and
\* a non-nil Logger.
C4_NewAcceptsValidConfig ==
    (ret.op = "New" /\ AllRulesOk(ret.cfg))
    => /\ ret.err = NilError
       /\ ret.logger # NilLogger
       /\ ret.logger \in 1..Len(heap)

C4_Witness ==
    /\ ret.op = "New"
    /\ AllRulesOk(ret.cfg)
    /\ ret.cfg.Output = OutputFile
    /\ ret.cfg.Level # ToLower(ret.cfg.Level)
    /\ ret.logger # NilLogger

C7_WithIdentity ==
    ret.op = "With" =>
        /\ Len(ret.fields) = 0 => ret.logger = ret.recv
        /\ Len(ret.fields) >= 1 => ret.logger # ret.recv /\ ret.logger \in 1..Len(heap)

C7_Witness ==
    /\ ret.op = "With"
    /\ Len(ret.fields) = 0
    /\ ret.logger = ret.recv
    /\ origin[ret.recv].parent # NilLogger

\* C8: every record a Logger P emits carries, between env and the fields of
\* the call, exactly the fields bound on the way from the root to P, and so
\* none of the fields given to a With call made on P or on a descendant.
C8_WithLeavesReceiverUnchanged ==
    \A e \in Entries :
        SubSeq(e.fields, 6, Len(e.fields) - Len(e.call.fields) - 4)
            = [i \in 1..Len(WithChain(e.by)) |-> ZapFieldOf(WithChain(e.by)[i])]

C8_Witness ==
    \E e \in Entries :
        \E q \in 1..Len(heap), r \in 1..Len(heap) :
            /\ origin[q].parent = e.by
            /\ origin[r].parent = q
            /\ origin[q].at < e.at
            /\ origin[r].at < e.at
            /\ ~HasKey(e, origin[q].fields[1].zapField.key)

\* C9: every record emitted by Ln, where L1 = L0.With(F1), ..., Ln =
\* L(n-1).With(Fn), holds the fields of F1, then those of F2, ..., then those
\* of Fn, in that order.
C9_WithChainAccumulates ==
    \A e \in Entries :
        HasBlock(e, [i \in 1..Len(WithChain(e.by)) |-> ZapFieldOf(WithChain(e.by)[i])])

C9_Witness ==
    \E e \in Entries :
        /\ origin[e.by].parent # NilLogger
        /\ origin[origin[e.by].parent].parent # NilLogger
        /\ origin[e.by].fields # origin[origin[e.by].parent].fields
        /\ e.op = "Debug"

EnableCallerSet(c) == "EnableCaller" \in DOMAIN c /\ c.EnableCaller

\* C11 as stated: a record holds caller or function only when EnableCaller
\* was set on the Config its Logger was built from, also for a Logger
\* derived by With.
C11_CallerOnlyWhenEnabled ==
    \A e \in Entries :
        (HasKey(e, "caller") \/ HasKey(e, "function")) => EnableCallerSet(cfg)

LogOps == {"Debug", "Info", "Warn", "Error", "Fatal"}

IsLibraryFrame(f) == \E op \in LogOps \cup {"getCaller"} : f = LibraryFrame(op)

\* the chain of With calls that leads from the root to logger l has n links
RECURSIVE WithDepth(_)
WithDepth(l) ==
    IF origin[l].parent = NilLogger THEN 0 ELSE 1 + WithDepth(origin[l].parent)

\* C13: the caller and function of a record are the base file name, the
\* line and the unqualified function name of the frame that called the
\* public log method, never those of a frame of the library, whether the
\* Logger is a root or was reached through one or more With calls.
C13_CallerIsCallSite ==
    \A e \in Entries :
        e.call.stack # <<>> =>
            LET site == e.call.stack[1]
                n == Len(e.fields)
            IN  /\ ~IsLibraryFrame(site)
                /\ e.fields[n - 1] =
                      ZapString("caller", Base(site.file) \o <<":", ToString(site.line)>>)
                /\ e.fields[n] =
                      ZapString("function",
                                SubSeq(site.fn, LastIndex(site.fn, "/") + 1, Len(site.fn)))
                /\ e.fields[n].value # StrV(<<"log.", e.op>>)

C13_Witness ==
    \E e \in Entries :
        /\ WithDepth(e.by) = 2
        /\ e.call.stack # <<>>
        /\ e.call.stack[1] = AppFrame_handler
        /\ HasPair(e, "caller", StrV(<<"handler.go", ":", "7">>))
        /\ HasPair(e, "function", StrV(<<"api.(*Handler).Serve">>))

\* C14: when runtime.Caller cannot recover the frame asked for, getCaller
\* returns {"unknown", 0, "unknown"} and the log call still writes its
\* record, with caller "unknown:0" and function "unknown".
C14_UnknownCallerStillLogs ==
    /\ \A e \in Entries :
          e.call.stack = <<>> =>
             /\ e.fields[Len(e.fields) - 1] = ZapString("caller", <<"unknown", ":", "0">>)
             /\ e.fields[Len(e.fields)] = ZapString("function", <<"unknown">>)
    /\ \A op \in LogOps, skip \in 1..3 :
          getCaller(skip, <<LibraryFrame("getCaller"), LibraryFrame(op)>>)
             = [file |-> <<"unknown">>, line |-> 0, function |-> <<"unknown">>]
    /\ \A call \in CallSet :
          ( /\ ret.op \in LogOps
            /\ ret.requestId = call.requestId
            /\ call.requestId # <<>>
            /\ call.stack = <<>>
            /\ Enabled(heap[ret.recv].zapLogger, LevelOf[ret.op])
            /\ SinkWritable(heap[ret.recv].zapLogger.out) )
          => \E e \in Entries : e.by = ret.recv /\ e.op = ret.op /\ e.call = call

C14_Witness ==
    \E e \in Entries :
        /\ e.call.stack = <<>>
        /\ HasPair(e, "caller", StrV(<<"unknown", ":", "0">>))
        /\ HasPair(e, "function", StrV(<<"unknown">>))
        /\ HasPair(e, "message", StrV(e.call.msg))
        /\ origin[e.by].parent # NilLogger

\* s is `name` written in some mix of upper and lower case
IsCasingOf(s, name) ==
    /\ Len(s) = Len(name)
    /\ \A i \in 1..Len(s) : s[i] = name[i] \/ s[i] = UpperChar(name[i])

\* the backend severity a level name stands for
SeverityOf ==
    << [name |-> Str_debug, level |-> ZapLevel.debug],
       [name |-> Str_info, level |-> ZapLevel.info],
       [name |-> Str_warn, level |-> ZapLevel.warn],
       [name |-> Str_warning, level |-> ZapLevel.warn],
       [name |-> Str_error, level |-> ZapLevel.error],
       [name |-> Str_fatal, level |-> ZapLevel.fatal] >>

\* C15: toZapLevel maps any casing of debug, info, warn, error or fatal to
\* the severity of that name with a nil error, and "warning" to the warn
\* severity; for every other input it returns the info severity together
\* with a non-nil "invalid log level" error that names the input.
C15_ToZapLevelCaseInsensitive ==
    ret.op = "toZapLevel" =>
        LET l == ret.cfg.Level
            named == {i \in 1..Len(SeverityOf) : IsCasingOf(l, SeverityOf[i].name)}
        IN  /\ \A i \in named : ret.level = SeverityOf[i].level /\ ret.err = NilError
            /\ named = {} =>
                  /\ ret.err # NilError
                  /\ ret.level = ZapLevel.info
                  /\ ErrorText(ret.err)[1] = "invalid log level: "
                  /\ SubSeq(ErrorText(ret.err), 2, 1 + Len(l)) = l

C15_Witness ==
    /\ ret.op = "toZapLevel"
    /\ ret.cfg.Level = <<"W","A","R","N","I","N","G">>
    /\ ret.level = ZapLevel.warn
    /\ ret.err = NilError

\* C16: a Fatal call with a non-empty request id hands its record to the
\* sink (the record is the last one of the sink's stream whenever the sink
\* takes writes) and ends the process in the same call: the process has
\* exited as soon as Fatal has acted, Fatal is the only call that ends it,
\* nothing is returned to the caller after it, and no record is written
\* and no call is made once the process has exited.
C16_FatalEmitsThenExits ==
    /\ []( (ret.op = "Fatal" /\ ret.panic = <<>>)
           => /\ exited
              /\ LET out == heap[ret.recv].zapLogger.out
                 IN  SinkWritable(out) =>
                        /\ streams[out.name] # <<>>
                        /\ LET e == streams[out.name][Len(streams[out.name])]
                           IN  /\ e.op = "Fatal"
                               /\ e.by = ret.recv
                               /\ e.call.requestId = ret.requestId
                               /\ e.at = clock )
    /\ [](exited => ret.op = "Fatal" /\ ret.panic = <<>>)
    /\ [][~exited]_vars

C16_Witness ==
    /\ exited
    /\ ret.op = "Fatal"
    /\ origin[ret.recv].parent # NilLogger
    /\ \E e \in Entries : e.op = "Fatal" /\ e.by = ret.recv /\ e.at = clock

\* C17: Sync returns a non-nil error exactly when the flush of the backend
\* failed, and that error is the backend's; it returns nil otherwise; it
\* never panics, writes no record to any sink and does not end the process.
C17_SyncReportsFlushFailure ==
    /\ []( ret.op = "Sync" =>
              /\ (ret.err # NilError) <=> (ret.flush # NilError)
              /\ ret.err = ret.flush
              /\ ret.panic = <<>> )
    /\ [][ ret'.op = "Sync" => (streams' = streams /\ clock' = clock /\ ~exited') ]_vars

C17_Witness ==
    /\ ret.op = "Sync"
    /\ ret.flush # NilError
    /\ ret.err # NilError
    /\ origin[ret.recv].parent # NilLogger
    /\ Entries # {}

\* the fields bound on the way from the root to the Logger that wrote e
BoundOf(e) == [i \in 1..Len(WithChain(e.by)) |-> ZapFieldOf(WithChain(e.by)[i])]

\* the fields given to the log call that wrote e
CallFieldsOf(e) == [i \in 1..Len(e.call.fields) |-> ZapFieldOf(e.call.fields[i])]

ReaderSees(e, k) ==
    e.fields[CHOOSE i \in 1..Len(e.fields) :
                /\ e.fields[i].key = k
                /\ \A j \in (i + 1)..Len(e.fields) : e.fields[j].key # k].value

\* C20: keys are neither validated nor de-duplicated: every bound field and
\* every field of the call is in the record, bound fields first, each group
\* in the order given, also when two of them share a key; so a
\* last-write-wins reader sees, for such a key, the pair composed last.
C20_DuplicateKeysPassThrough ==
    \A e \in Entries :
        LET passed == BoundOf(e) \o CallFieldsOf(e)
        IN  /\ SubSeq(e.fields, 6, 5 + Len(passed)) = passed
            /\ Len(e.fields) = 5 + Len(passed) + 4
            /\ \A i \in 1..Len(passed) :
                  ( /\ \A j \in (i + 1)..Len(passed) : passed[j].key # passed[i].key
                    /\ passed[i].key \notin {"request_id", "metadata", "caller", "function"} )
                  => ReaderSees(e, passed[i].key) = passed[i].value

C20_Witness ==
    \E e \in Entries :
        /\ \E i \in 1..Len(BoundOf(e)) : BoundOf(e)[i] = ZapFieldOf(F_user)
        /\ \E i, j \in 1..Len(CallFieldsOf(e)) :
              /\ i < j
              /\ CallFieldsOf(e)[i] = ZapFieldOf(F_user)
              /\ CallFieldsOf(e)[j] = ZapFieldOf(F_user2)
        /\ ReaderSees(e, "user_id") = ZapFieldOf(F_user2).value

\* the records of a stream: what stands before each line ending
RECURSIVE LinesOf(_)
LinesOf(w) ==
    IF \A i \in 1..Len(w) : w[i] # LineEnding THEN <<>>
    ELSE LET k == CHOOSE i \in 1..Len(w) :
                      w[i] = LineEnding /\ \A j \in 1..(i - 1) : w[j] # LineEnding
         IN  <<SubSeq(w, 1, k - 1)>> \o LinesOf(SubSeq(w, k + 1, Len(w)))

\* what stands after the last line ending of a stream
RECURSIVE TailOf(_)
TailOf(w) ==
    IF \A i \in 1..Len(w) : w[i] # LineEnding THEN w
    ELSE TailOf(SubSeq(w, 1 + (CHOOSE i \in 1..Len(w) : w[i] = LineEnding), Len(w)))

\* the goroutines whose whole record sink n has taken
Delivered(n) ==
    {t \in Threads : thr[t].sink = n /\ thr[t].bytes # <<>>
                       /\ thr[t].sent = Len(thr[t].bytes)}

C21_ServiceEnvPermanent ==
    \A e \in Entries :
        /\ ReaderSees(e, "service") = StrV(cfg.Service)
        /\ ReaderSees(e, "env") = StrV(cfg.Env)

\* the severity Config.Level stands for
Threshold == toZapLevel(cfg.Level).level

\* C22: Config.Level is the minimum level of the Logger New returns and of
\* every Logger derived from it by With: a log call with a non-empty request
\* id below that level writes nothing, and one at or above it appends
\* exactly one record, its own, to the Logger's sink (when the sink takes
\* writes) and nothing to any other sink.
C22_LevelThreshold ==
    [][ (ret'.op \in LogOps /\ ret'.requestId # <<>>)
        => LET out == heap[ret'.recv].zapLogger.out
           IN  /\ heap[ret'.recv].zapLogger.level = Threshold
               /\ LevelOf[ret'.op] < Threshold => streams' = streams
               /\ (LevelOf[ret'.op] >= Threshold /\ SinkWritable(out)) =>
                     /\ Len(streams'[out.name]) = Len(streams[out.name]) + 1
                     /\ SubSeq(streams'[out.name], 1, Len(streams[out.name]))
                           = streams[out.name]
                     /\ streams'[out.name][Len(streams'[out.name])].op = ret'.op
                     /\ streams'[out.name][Len(streams'[out.name])].by = ret'.recv
                     /\ \A n \in SinkNames \ {out.name} : streams'[n] = streams[n] ]_vars

C22_Witness ==
    /\ ret.op = "Info"
    /\ ret.requestId # <<>>
    /\ ret.panic = <<>>
    /\ WithDepth(ret.recv) = 2
    /\ Threshold = ZapLevel.warn
    /\ SinkWritable(heap[ret.recv].zapLogger.out)
    /\ Entries = {}

\* C23: for sequential calls on Loggers that share a sink, the sink holds
\* one record per enabled log call made so far, the i-th record being that
\* of the i-th such call, each with the request id and metadata of its call
\* and the bound fields of its Logger; this is so after Sync as well, and no
\* other sink holds anything.
C23_FifoPerSink ==
    \A n \in SinkNames :
        IF n = heap[1].zapLogger.out.name
        THEN /\ Len(streams[n]) = clock
             /\ \A i \in 1..Len(streams[n]) :
                   LET e == streams[n][i]
                   IN  /\ e.at = i
                       /\ HasPair(e, "request_id", StrV(e.call.requestId))
                       /\ HasPair(e, "metadata", e.call.metadata)
                       /\ SubSeq(e.fields, 6, 5 + Len(BoundOf(e))) = BoundOf(e)
        ELSE streams[n] = <<>>

C23_Witness ==
    /\ ret.op = "Sync"
    /\ clock = 2
    /\ LET s == streams[heap[1].zapLogger.out.name]
       IN  /\ Len(s) = 2
           /\ s[1].by = 2
           /\ s[2].by = 1
           /\ s[1].call # s[2].call
           /\ s[1].at < s[2].at

(***************************************************************************)
(* What Validate leaves alone, what a second Validate does, and the level  *)
(* conversion of New.                                                      *)
(***************************************************************************)
\* C24: Validate writes to nothing but MaxSizeMB, MaxBackups and MaxAgeDays:
\* Service, Env, Level, Output and FilePath are after every call what they
\* were before it, untrimmed and in their original case, whether the call
\* returned nil or an error.
C24_ValidateFrame ==
    \A k \in 1..Len(vcalls) :
        /\ vcalls[k].post.Service = vcalls[k].pre.Service
        /\ vcalls[k].post.Env = vcalls[k].pre.Env
        /\ vcalls[k].post.Level = vcalls[k].pre.Level
        /\ vcalls[k].post.Output = vcalls[k].pre.Output
        /\ vcalls[k].post.FilePath = vcalls[k].pre.FilePath
        /\ DOMAIN vcalls[k].post = DOMAIN vcalls[k].pre

C24_Witness ==
    \E k \in 1..Len(vcalls) :
        /\ vcalls[k].err = NilError
        /\ vcalls[k].pre.Env # ToLower(TrimSpace(vcalls[k].pre.Env))
        /\ vcalls[k].pre.Service # TrimSpace(vcalls[k].pre.Service)
        /\ vcalls[k].post.Env = vcalls[k].pre.Env
        /\ vcalls[k].post.MaxSizeMB # vcalls[k].pre.MaxSizeMB

\* C29: a second Validate on the same Config returns what the first one
\* returned, nil or an error with the same messages, and changes no field,
\* the rotation fields included.
C29_ValidateIdempotent ==
    \A k \in 2..Len(vcalls) :
        /\ vcalls[k].pre = vcalls[k - 1].post
        /\ vcalls[k].err = vcalls[k - 1].err
        /\ ErrorText(vcalls[k].err) = ErrorText(vcalls[k - 1].err)
        /\ vcalls[k].post = vcalls[k].pre

C29_Witness ==
    /\ Len(vcalls) = 2
    /\ vcalls[1].err # NilError
    /\ vcalls[2].err = vcalls[1].err
    /\ vcalls[1].pre.Level # TrimSpace(vcalls[1].pre.Level)
    /\ vcalls[1].pre.MaxBackups <= 0
    /\ vcalls[1].post # vcalls[1].pre
    /\ vcalls[2].post = vcalls[1].post

\* C30: whenever Validate returns nil on a Config, toZapLevel returns a nil
\* error on the Level of that Config, so New on the Config gets past its
\* level conversion; and every error New returns is Validate's error
\* wrapped with the prefix "invalid config: ".
C30_LevelBranchUnreachable ==
    \A k \in 1..Len(vcalls) :
        LET c == vcalls[k].pre
            r == New(c)
        IN  /\ vcalls[k].err = NilError =>
                  /\ toZapLevel(vcalls[k].post.Level).err = NilError
                  /\ r.err = NilError
            /\ r.err # NilError =>
                  /\ vcalls[k].err # NilError
                  /\ r.err = WrapError("invalid config: ", vcalls[k].err)
                  /\ ErrorText(r.err)[1] = "invalid config: "

C30_Witness ==
    \E k \in 1..Len(vcalls) :
        /\ vcalls[k].err = NilError
        /\ vcalls[k].pre.Level = <<"W","a","r","n","i","n","g">>
        /\ toZapLevel(vcalls[k].pre.Level).level = ZapLevel.warn
        /\ New(vcalls[k].pre).err = NilError

(***************************************************************************)
(* What getCaller returns.                                                 *)
(***************************************************************************)
\* t is what stands in s after its last "/" (all of s when s has none)
IsLastComponent(t, s) ==
    /\ ~Contains(t, "/")
    /\ Len(t) <= Len(s)
    /\ SubSeq(s, Len(s) - Len(t) + 1, Len(s)) = t
    /\ Len(t) < Len(s) => s[Len(s) - Len(t)] = "/"

\* C26: when runtime.Caller finds the frame, getCaller returns the line of
\* the frame, as file the base name of the frame's file (no directory, no
\* path separator) and as function the runtime name of the frame's function
\* without everything up to and including its last "/": a name with no "/"
\* is returned as it is.
C26_BaseFileUnqualifiedFunction ==
    (ret.op = "getCaller" /\ ret.skip + 2 <= Len(stack)) =>
        LET f == stack[ret.skip + 2]
        IN  /\ ret.caller.line = f.line
            /\ ret.caller.file # <<>>
            /\ IsLastComponent(ret.caller.file, f.file)
            /\ f.hasFn =>
                  /\ ret.caller.function # <<>>
                  /\ IsLastComponent(ret.caller.function, f.fn)
                  /\ ~Contains(f.fn, "/") => ret.caller.function = f.fn
            /\ ~f.hasFn => ret.caller.function = <<"unknown">>

C26_Witness ==
    /\ ret.op = "getCaller"
    /\ ret.skip = 1
    /\ Len(stack[3].file) > 5
    /\ Len(stack[3].fn) > 5
    /\ ret.caller.file = <<"handler.go">>
    /\ ret.caller.function = <<"c.F[...]">>

(***************************************************************************)
(* With while other goroutines log.                                        *)
(***************************************************************************)
\* the fields bound on the way from the root to logger l
BoundOn(l) == [i \in 1..Len(WithChain(l)) |-> ZapFieldOf(WithChain(l)[i])]

\* C25: a With call writes nothing to any sink and changes no Logger that
\* exists; so in every interleaving of With calls on a Logger with log calls
\* on it and on its children, each record, encoded or already on the sink,
\* holds between env and the fields of its call exactly the fields bound on
\* the Logger it was logged on.
C25_WithPureUnderConcurrency ==
    /\ []( \A t \in Threads :
              thr[t].bytes # <<>> =>
                  /\ SubSeq(thr[t].bytes, 6, Len(thr[t].bytes) - 5 - thr[t].nfields)
                        = BoundOn(thr[t].by)
                  /\ thr[t].pc = "done" =>
                        \E i \in 1..Len(LinesOf(wire[thr[t].sink])) :
                            LinesOf(wire[thr[t].sink])[i] \o <<LineEnding>> = thr[t].bytes )
    /\ [][ (\E t \in Threads : thr[t].pc = "idle" /\ thr'[t].pc = "done")
           => /\ wire' = wire
              /\ streams' = streams
              /\ mu' = mu
              /\ \A l \in 1..Len(heap) : heap'[l] = heap[l] /\ origin'[l] = origin[l] ]_vars

C25_Witness ==
    /\ Len(heap) = 3
    /\ origin[3].parent = 1
    /\ \E t \in Threads :
          /\ thr[t].by = 1
          /\ thr[t].pc = "writing"
          /\ thr[t].sent > 0
          /\ thr[t].sent < Len(thr[t].bytes)
          /\ thr[t].at <= origin[3].at
          /\ BoundOn(3) # BoundOn(1)

(***************************************************************************)
(* The request id check and the level.                                     *)
(***************************************************************************)
\* C27: Debug, Info, Warn and Error check the request id before the level
\* is looked at: a call with an empty request id panics also when its
\* severity is below the logger's level.  Only the empty string is
\* rejected: a call whose request id is white space returns without a
\* panic and, when its severity is enabled and the sink takes the write,
\* leaves a record that carries that request id.
C27_IdCheckBeforeLevelFilter ==
    ret.op \in LogOps \ {"Fatal"} =>
        LET z == heap[ret.recv].zapLogger
        IN  /\ ret.requestId = <<>> => ret.panic = PanicMessage
            /\ (ret.requestId # <<>> /\ TrimSpace(ret.requestId) = <<>>) =>
                  /\ ret.panic = <<>>
                  /\ (Enabled(z, LevelOf[ret.op]) /\ SinkWritable(z.out)) =>
                        \E e \in Entries :
                            /\ e.by = ret.recv
                            /\ e.op = ret.op
                            /\ e.at = clock
                            /\ HasPair(e, "request_id", StrV(ret.requestId))

C27_Witness ==
    /\ ret.op = "Info"
    /\ ret.requestId = <<>>
    /\ ret.panic = PanicMessage
    /\ ~Enabled(heap[ret.recv].zapLogger, LevelOf[ret.op])
    /\ origin[ret.recv].parent # NilLogger
    /\ Entries = {}

(***************************************************************************)
(* New and the caller's Config.                                            *)
(***************************************************************************)
\* C28: New leaves the Config of its caller as it was, on success and on
\* error: validation and the rotation defaults act on New's own copy.  The
\* rotation values the file backend is built with are the ones of that
\* copy after Validate: the caller's value where it is positive, 100, 3 and
\* 28 where it is not; none of them is ever non-positive.
C28_NewKeepsCallersConfig ==
    ret.op = "New" =>
        /\ cfg = ret.cfg
        /\ (ret.err = NilError /\ ret.cfg.Output = OutputFile) =>
              LET out == heap[ret.logger].zapLogger.out
                  c == ret.cfg
              IN  /\ out.kind = "file"
                  /\ out.MaxSize = IF c.MaxSizeMB <= 0 THEN DefaultMaxSizeMB ELSE c.MaxSizeMB
                  /\ out.MaxBackups =
                        IF c.MaxBackups <= 0 THEN DefaultMaxBackups ELSE c.MaxBackups
                  /\ out.MaxAge = IF c.MaxAgeDays <= 0 THEN DefaultMaxAgeDays ELSE c.MaxAgeDays
                  /\ out.MaxSize > 0 /\ out.MaxBackups > 0 /\ out.MaxAge > 0

C28_Witness ==
    /\ ret.op = "New"
    /\ ret.err = NilError
    /\ cfg.Output = OutputFile
    /\ cfg.MaxSizeMB < 0
    /\ cfg.MaxBackups = 0
    /\ cfg.MaxAgeDays > 0
    /\ heap[ret.logger].zapLogger.out.MaxSize = DefaultMaxSizeMB
    /\ heap[ret.logger].zapLogger.out.MaxBackups = DefaultMaxBackups
    /\ heap[ret.logger].zapLogger.out.MaxAge = cfg.MaxAgeDays

====
